---- MODULE Spec2Model ----
(***************************************************************************)
(* rtsp_snapshot.py: one batch pass over the devices of a JSON config      *)
(* file.  For every device a stream is opened and either one frame is      *)
(* written as a jpg (save_snapshot) or frames are appended to an mp4 for a *)
(* wall-clock duration (save_video).                                       *)
(*                                                                         *)
(* The control flow of main, record_rtsp_stream, save_snapshot and         *)
(* save_video is modelled statement by statement; cv2, the file system and *)
(* the clock are the environment: every open, read and write picks its     *)
(* result nondeterministically, and time advances in whole seconds.        *)
(***************************************************************************)
EXTENDS Integers, Sequences, FiniteSets, TLC

(* ------------------------------ bounds -------------------------------- *)
\* longest device list in the config file
MaxDevices == 2
\* largest "duration" value a record of the config file carries
MaxDuration == 2
\* most cap.read() calls followed within one capture attempt
MaxReads == 2

(* ------------------------- program constants -------------------------- *)
\* DEFAULT_DURATION = 10
DEFAULT_DURATION == 10
\* while time.time() - t0 < 5
FrameWaitSec == 5
\* DEFAULT_FILEFORMAT = "jpg"
DEFAULT_FILEFORMAT == "jpg"
\* SUPPORTED_FORMATS = ["jpg", "mp4"]
SUPPORTED_FORMATS == {"jpg", "mp4"}

(* ------------------------------ inputs -------------------------------- *)
\* A device record is a JSON object: a function from the keys it has to
\* their values.  Strings that the program takes apart (directory) are
\* sequences of characters.
DeviceRecords ==
    {  \* a snapshot with every optional key but the format left out
       [camera_name |-> "cam", camera_url |-> "rtsp", fileformat |-> "jpg"],
       \* a format the program does not support, a directory to sanitise
       [camera_name |-> "cam", camera_url |-> "rtsp", fileformat |-> "png",
        directory |-> <<"d", "/">>, filename |-> "f"],
       \* no format given
       [camera_name |-> "cam", camera_url |-> "rtsp", directory |-> <<"d">>,
        filename |-> "f", duration |-> 0],
       \* records that lack a name or a url, or carry an empty one
       [camera_url |-> "rtsp", fileformat |-> "jpg", directory |-> <<"d">>],
       [camera_name |-> "", camera_url |-> "rtsp", directory |-> <<"d">>],
       [camera_name |-> "cam", fileformat |-> "jpg", directory |-> <<"d">>],
       [camera_name |-> "cam", camera_url |-> "", directory |-> <<"d">>],
       \* a clip of the longest duration
       [camera_name |-> "cam", camera_url |-> "rtsp", fileformat |-> "mp4",
        directory |-> <<"d">>, filename |-> "f", duration |-> MaxDuration] }

DeviceLists == UNION { [1..n -> DeviceRecords] : n \in 0..MaxDevices }

\* what os.path.exists and json.load make of the config file
ConfigStates == {"ok", "missing", "malformed"}

\* seconds the clock may advance between two statements of a loop
TickSteps == {1, 2}

(* --------------------------- pure functions --------------------------- *)
\* the characters c with c.isalpha() or c.isdigit() or c in ("_", ".")
SafeChars == {"c", "d", "f", "1", "_", "."}

\* safe_filename
RECURSIVE safe_filename(_)
safe_filename(filename) ==
    IF filename = <<>> THEN <<>>
    ELSE IF Head(filename) \in SafeChars
         THEN <<Head(filename)>> \o safe_filename(Tail(filename))
         ELSE safe_filename(Tail(filename))

\* dict.get(key, default)
Get(device, key, default) ==
    IF key \in DOMAIN device THEN device[key] ELSE default

\* not device.get(key): the key is absent (None) or its string is empty
Falsy(device, key) ==
    IF key \in DOMAIN device THEN device[key] = "" ELSE TRUE

\* variant of ShouldSkip that only tests for the camera_name key
NameOnlySkip(device) == "camera_name" \notin DOMAIN device

\* if not camera_url or not camera_name
ShouldSkip(device) == Falsy(device, "camera_url") \/ Falsy(device, "camera_name")

\* variant of NormalFormat without the fallback to the default format
RawFormat(device) == Get(device, "fileformat", "mp4")

\* if fileformat not in SUPPORTED_FORMATS: fileformat = DEFAULT_FILEFORMAT
NormalFormat(device) ==
    LET fileformat == Get(device, "fileformat", "mp4")
    IN  IF fileformat \notin SUPPORTED_FORMATS THEN DEFAULT_FILEFORMAT
        ELSE fileformat

\* output_path / f"{timestamp}_{filename}.{fileformat}"
OutputPath(device, timestamp) ==
    [dir  |-> safe_filename(Get(device, "directory", <<>>)),
     ts   |-> timestamp,
     name |-> Get(device, "filename", "video.mp4"),
     ext  |-> NormalFormat(device)]

\* variant of ConfigLoads without the JSONDecodeError handling
MalformedAccepted(cfg) == cfg # "missing"

\* os.path.exists(config_file) and json.load(f) does not raise
ConfigLoads(cfg) == cfg = "ok"

\* variant of NoDevices without the early return
NeverEmpty(devs) == FALSE

\* if not devices
NoDevices(devs) == devs = <<>>

\* variant of WaitLoopCond that waits for a frame without a deadline
WaitForever(t, start) == TRUE

\* while time.time() - t0 < 5
WaitLoopCond(t, start) == t - start < FrameWaitSec

\* variant of RecLoopCond that counts frames instead of seconds
RecByFrames(t, start, duration_sec, nframes) == nframes < duration_sec

\* while time.time() - start_time < duration_sec
RecLoopCond(t, start, duration_sec, nframes) == t - start < duration_sec

\* variant of VideoReport that reports a cut-short clip as a failure
VideoReportStrict(broke) == IF broke THEN "WriteFailed" ELSE "Success"

\* save_video, line 94: "Saved video" is printed however the loop was left
VideoReport(broke) == "Success"

\* What a cap.read() can meet: a decoded frame, no frame yet (the stream
\* is alive), or the end of the stream, after which no read succeeds.
ReadResults(before) ==
    IF before = "ended" THEN {"ended"} ELSE {"frame", "noframe", "ended"}

\* variant of ReadOk that takes "no frame yet" for a frame
ReadOkNotEnded(met) == met # "ended"

\* ok / ret of cap.read(): cv2 reports both kinds of failure as False
ReadOk(met) == met = "frame"

\* variant of DispatchTarget that takes every other format for an image
DispatchJpgElse(fileformat) ==
    IF fileformat = "mp4" THEN "vid_open" ELSE "snap_open"

\* record_rtsp_stream: the branch on fileformat
DispatchTarget(fileformat) ==
    IF fileformat = "jpg" THEN "snap_open"
    ELSE IF fileformat = "mp4" THEN "vid_open"
    ELSE "raise"

(* ------------------------------- state -------------------------------- *)
VARIABLES
    config,     \* state of the config file
    devices,    \* the list json.load returns (what the file would hold,
                \* when it cannot be loaded)
    pc,         \* the statement the process is at
    exc,        \* the exception that ended the process, "" if none
    idx,        \* position of the for loop in devices (1-based)
    now,        \* time.time(), in seconds since the start of the run
    cur,        \* arguments of the running record_rtsp_stream call
    cap,        \* the cv2.VideoCapture of the running attempt
    out,        \* the cv2.VideoWriter of the running attempt
    t0,         \* t0 / start_time of the running loop
    frame,      \* save_snapshot's frame: 0 is None, k the k-th read
    reads,      \* cap.read() calls of the running attempt
    clip,       \* frames given to out.write, in order
    brk,        \* the recording loop was left by "if not ret: break"
    last,       \* what the last cap.read() of the attempt met, "" if none
    log,        \* the lines printed, in order
    streams,    \* devices a VideoCapture was constructed for, in order
    dispatched, \* record_rtsp_stream calls, in order
    dirs,       \* directories made by os.makedirs in main
    files       \* output files created

vars == <<config, devices, pc, exc, idx, now, cur, cap, out, t0, frame,
          reads, clip, brk, last, log, streams, dispatched, dirs, files>>

attempt == <<cur, cap, out, t0, frame, reads, clip, brk, last>>
history == <<log, streams, dispatched, dirs, files>>

NoCall == [dev |-> 0, path |-> <<>>, fmt |-> "", duration |-> 0]

Init ==
    /\ config \in ConfigStates
    /\ devices \in DeviceLists
    /\ pc = "start"
    /\ exc = ""
    /\ idx = 0
    /\ now = 0
    /\ cur = NoCall
    /\ cap = "none"
    /\ out = "none"
    /\ t0 = 0
    /\ frame = 0
    /\ reads = 0
    /\ clip = <<>>
    /\ brk = FALSE
    /\ last = ""
    /\ log = <<>>
    /\ streams = <<>>
    /\ dispatched = <<>>
    /\ dirs = {}
    /\ files = {}

Line(msg, dev) == [msg |-> msg, dev |-> dev]

\* the callee returns into the for loop of main
Return == /\ pc' = "main_loop"
          /\ idx' = idx + 1

Raise(e) == /\ pc' = "halt"
            /\ exc' = e

(* ------------------------------- main --------------------------------- *)
\* main, lines 128-136: the config file is missing or is not JSON
ConfigError ==
    /\ pc = "start"
    /\ ~ConfigLoads(config)
    /\ Raise(IF config = "missing" THEN "FileNotFoundError" ELSE "ValueError")
    /\ UNCHANGED <<config, devices, idx, now, attempt, history>>

\* main, lines 138-140: nothing to do
EmptyConfig ==
    /\ pc = "start"
    /\ ConfigLoads(config)
    /\ NoDevices(devices)
    /\ log' = Append(log, Line("NoDevices", 0))
    /\ pc' = "done"
    /\ UNCHANGED <<config, devices, exc, idx, now, attempt, streams,
                   dispatched, dirs, files>>

\* main, line 143: the for loop is entered
StartBatch ==
    /\ pc = "start"
    /\ ConfigLoads(config)
    /\ ~NoDevices(devices)
    /\ pc' = "main_loop"
    /\ idx' = 1
    /\ UNCHANGED <<config, devices, exc, now, attempt, history>>

\* main, line 143: the list is exhausted and main returns
EndBatch ==
    /\ pc = "main_loop"
    /\ idx > Len(devices)
    /\ pc' = "done"
    /\ UNCHANGED <<config, devices, exc, idx, now, attempt, history>>

\* main, lines 144-153: a record without name or url is passed over
SkipDevice ==
    /\ pc = "main_loop"
    /\ idx <= Len(devices)
    /\ ShouldSkip(devices[idx])
    /\ log' = Append(log, Line("Skip", idx))
    /\ idx' = idx + 1
    /\ UNCHANGED <<config, devices, pc, exc, now, attempt, streams,
                   dispatched, dirs, files>>

\* main, lines 144-176, and record_rtsp_stream, lines 112-117: the record
\* is normalised, its directory made, its path stamped, and the call made
Dispatch ==
    /\ pc = "main_loop"
    /\ idx <= Len(devices)
    /\ ~ShouldSkip(devices[idx])
    /\ LET device     == devices[idx]
           directory  == safe_filename(Get(device, "directory", <<>>))
           raw        == Get(device, "fileformat", "mp4")
           fileformat == NormalFormat(device)
           duration   == Get(device, "duration", DEFAULT_DURATION)
           path       == OutputPath(device, now)
           target     == DispatchTarget(fileformat)
       IN  /\ log' = IF raw \notin SUPPORTED_FORMATS
                     THEN Append(log, Line("UnsupportedFormat", idx))
                     ELSE log
           /\ dirs' = IF directory # <<>> THEN dirs \cup {directory} ELSE dirs
           /\ dispatched' = Append(dispatched,
                                   [dev |-> idx, fmt |-> fileformat,
                                    path |-> path])
           /\ cur' = [dev |-> idx, path |-> path, fmt |-> fileformat,
                      duration |-> duration]
           /\ IF target = "raise"
              THEN Raise("ValueError")
              ELSE pc' = target /\ exc' = exc
    /\ cap' = "none"
    /\ out' = "none"
    /\ t0' = 0
    /\ frame' = 0
    /\ reads' = 0
    /\ clip' = <<>>
    /\ brk' = FALSE
    /\ last' = ""
    /\ UNCHANGED <<config, devices, idx, now, streams, files>>

(* --------------------------- save_snapshot ---------------------------- *)
\* lines 37-46: the stream is opened; a stream that is not open ends the
\* process through exit()
SnapshotOpen ==
    /\ pc = "snap_open"
    /\ streams' = Append(streams, cur.dev)
    /\ \E opened \in BOOLEAN :
         IF opened
         THEN /\ cap' = "open"
              /\ t0' = now
              /\ pc' = "snap_wait"
              /\ UNCHANGED <<exc, log>>
         ELSE /\ cap' = "unopened"
              /\ log' = Append(log, Line("OpenFailed", cur.dev))
              /\ Raise("SystemExit")
              /\ UNCHANGED t0
    /\ frame' = 0
    /\ UNCHANGED <<config, devices, idx, now, cur, out, reads, clip, brk,
                   last, dispatched, dirs, files>>

\* the wait loop without the break of line 51
SnapshotPollNoBreak ==
    /\ pc = "snap_wait"
    /\ WaitLoopCond(now, t0)
    /\ reads < MaxReads
    /\ reads' = reads + 1
    /\ \E met \in ReadResults(last) :
         /\ last' = met
         /\ frame' = IF ReadOk(met) THEN reads + 1 ELSE frame
    /\ UNCHANGED <<config, devices, pc, exc, idx, now, cur, cap, out, t0,
                   clip, brk, history>>

\* lines 47-52: one pass of the wait loop: a read, then either the break
\* with the frame or the sleep
SnapshotPoll ==
    /\ pc = "snap_wait"
    /\ WaitLoopCond(now, t0)
    /\ reads < MaxReads
    /\ reads' = reads + 1
    /\ \E met \in ReadResults(last) :
         /\ last' = met
         /\ IF ReadOk(met)
            THEN frame' = reads + 1 /\ pc' = "snap_write"
            ELSE UNCHANGED <<frame, pc>>
    /\ UNCHANGED <<config, devices, exc, idx, now, cur, cap, out, t0, clip,
                   brk, history>>

\* line 47: the loop condition is false and the loop is left
SnapshotWaitOver ==
    /\ pc = "snap_wait"
    /\ ~WaitLoopCond(now, t0)
    /\ pc' = "snap_write"
    /\ UNCHANGED <<config, devices, exc, idx, now, attempt, history>>

\* save_snapshot returning from the failure branch of line 56, before the
\* cap.release() of line 59
SnapshotWriteNoRelease ==
    /\ pc = "snap_write"
    /\ \/ /\ frame = 0
          /\ Raise("cv2.error")
          /\ UNCHANGED <<idx, cap, log, files>>
       \/ /\ \E success \in BOOLEAN :
               /\ success => frame # 0
               /\ IF success
                  THEN /\ files' = files \cup {cur.path}
                       /\ log' = Append(log, Line("Success", cur.dev))
                       /\ cap' = "released"
                  ELSE /\ files' = files
                       /\ log' = Append(log, Line("WriteFailed", cur.dev))
                       /\ cap' = cap
          /\ Return
          /\ exc' = exc
    /\ UNCHANGED <<config, devices, now, cur, out, t0, frame, reads, clip,
                   brk, last, streams, dispatched, dirs>>

\* lines 54-59: cv2.imwrite, the report, cap.release().  With frame None
\* imwrite gets an empty image: it raises cv2.error, or (builds without the
\* assertion) returns False.
SnapshotWrite ==
    /\ pc = "snap_write"
    /\ \/ /\ frame = 0
          /\ Raise("cv2.error")
          /\ UNCHANGED <<idx, cap, log, files>>
       \/ /\ \E success \in BOOLEAN :
               /\ success => frame # 0
               /\ IF success
                  THEN /\ files' = files \cup {cur.path}
                       /\ log' = Append(log, Line("Success", cur.dev))
                  ELSE /\ files' = files
                       /\ log' = Append(log, Line("WriteFailed", cur.dev))
          /\ cap' = "released"
          /\ Return
          /\ exc' = exc
    /\ UNCHANGED <<config, devices, now, cur, out, t0, frame, reads, clip,
                   brk, last, streams, dispatched, dirs>>

(* ----------------------------- save_video ----------------------------- *)
\* save_video without the isOpened test of line 75
VideoOpenUnchecked ==
    /\ pc = "vid_open"
    /\ streams' = Append(streams, cur.dev)
    /\ \E opened \in BOOLEAN :
         /\ cap' = IF opened THEN "open" ELSE "unopened"
         /\ \E writable \in BOOLEAN :
              IF writable
              THEN out' = "open" /\ files' = files \cup {cur.path}
              ELSE out' = "unopened" /\ files' = files
    /\ t0' = now
    /\ pc' = "vid_rec"
    /\ UNCHANGED <<config, devices, exc, idx, now, cur, frame, reads, clip,
                   brk, last, log, dispatched, dirs>>

\* lines 73-85: the stream is opened, the writer constructed, the clock read
VideoOpen ==
    /\ pc = "vid_open"
    /\ streams' = Append(streams, cur.dev)
    /\ \E opened \in BOOLEAN :
         IF opened
         THEN /\ cap' = "open"
              /\ \E writable \in BOOLEAN :
                   IF writable
                   THEN out' = "open" /\ files' = files \cup {cur.path}
                   ELSE out' = "unopened" /\ files' = files
              /\ t0' = now
              /\ pc' = "vid_rec"
              /\ UNCHANGED <<idx, log>>
         ELSE /\ cap' = "unopened"
              /\ log' = Append(log, Line("OpenFailed", cur.dev))
              /\ Return
              /\ UNCHANGED <<out, t0, files>>
    /\ UNCHANGED <<config, devices, exc, now, cur, frame, reads, clip, brk,
                   last, dispatched, dirs>>

\* the recording loop with out.write ahead of the test of ret
VideoStepWriteFirst ==
    /\ pc = "vid_rec"
    /\ RecLoopCond(now, t0, cur.duration, Len(clip))
    /\ reads < MaxReads
    /\ reads' = reads + 1
    /\ clip' = Append(clip, reads + 1)
    /\ \E met \in ReadResults(last) :
         /\ last' = met
         /\ IF ReadOk(met)
            THEN UNCHANGED <<pc, brk>>
            ELSE brk' = TRUE /\ pc' = "vid_end"
    /\ UNCHANGED <<config, devices, exc, idx, now, cur, cap, out, t0, frame,
                   history>>

\* lines 86-90: one pass of the recording loop: a read, then either the
\* break or out.write
VideoStep ==
    /\ pc = "vid_rec"
    /\ RecLoopCond(now, t0, cur.duration, Len(clip))
    /\ reads < MaxReads
    /\ reads' = reads + 1
    /\ \E met \in ReadResults(last) :
         /\ last' = met
         /\ IF ReadOk(met)
            THEN /\ clip' = Append(clip, reads + 1)
                 /\ UNCHANGED <<pc, brk>>
            ELSE /\ brk' = TRUE
                 /\ pc' = "vid_end"
                 /\ clip' = clip
    /\ UNCHANGED <<config, devices, exc, idx, now, cur, cap, out, t0, frame,
                   history>>

\* line 86: the loop condition is false and the loop is left
VideoTimeUp ==
    /\ pc = "vid_rec"
    /\ ~RecLoopCond(now, t0, cur.duration, Len(clip))
    /\ pc' = "vid_end"
    /\ UNCHANGED <<config, devices, exc, idx, now, attempt, history>>

\* save_video without the cap.release() of line 92
VideoFinishNoRelease ==
    /\ pc = "vid_end"
    /\ out' = "released"
    /\ log' = Append(log, Line(VideoReport(brk), cur.dev))
    /\ Return
    /\ UNCHANGED <<config, devices, exc, now, cur, cap, t0, frame, reads,
                   clip, brk, last, streams, dispatched, dirs, files>>

\* lines 92-94: both resources are released and the clip reported saved
VideoFinish ==
    /\ pc = "vid_end"
    /\ cap' = "released"
    /\ out' = "released"
    /\ log' = Append(log, Line(VideoReport(brk), cur.dev))
    /\ Return
    /\ UNCHANGED <<config, devices, exc, now, cur, t0, frame, reads, clip,
                   brk, last, streams, dispatched, dirs, files>>

(* ------------------------------ the clock ----------------------------- *)
\* time.time() as read by the two loops: it advances while a loop runs
\* (in cap.read and time.sleep).  Past the deadline further time changes
\* nothing the loops can see.
Tick ==
    /\ \/ pc = "snap_wait" /\ now - t0 < FrameWaitSec
       \/ pc = "vid_rec" /\ now - t0 < cur.duration
    /\ \E d \in TickSteps : now' = now + d
    /\ UNCHANGED <<config, devices, pc, exc, idx, attempt, history>>

Next ==
    \/ ConfigError
    \/ EmptyConfig
    \/ StartBatch
    \/ EndBatch
    \/ SkipDevice
    \/ Dispatch
    \/ SnapshotOpen
    \/ SnapshotPoll
    \/ SnapshotWaitOver
    \/ SnapshotWrite
    \/ VideoOpen
    \/ VideoStep
    \/ VideoTimeUp
    \/ VideoFinish
    \/ Tick

Spec == Init /\ [][Next]_vars

\* The statements of the program always complete (every read returns) and
\* the clock keeps advancing.
Fairness ==
    /\ WF_vars(Tick)
    /\ WF_vars(Next)

LiveSpec == Init /\ [][Next]_vars /\ Fairness

(* ------------------- record_rtsp_stream on its own -------------------- *)
\* formats a caller other than main may pass
CallFormats == {"jpg", "mp4", "png", ""}

\* the arguments of one call of record_rtsp_stream
DirectCalls ==
    { [dev |-> 1,
       path |-> [dir |-> <<>>, ts |-> 0, name |-> "f", ext |-> f],
       fmt |-> f,
       duration |-> d] : f \in CallFormats, d \in {0, MaxDuration} }

\* record_rtsp_stream is about to be called with some arguments
DirectInit ==
    /\ config = "ok"
    /\ devices = <<>>
    /\ pc = "call"
    /\ exc = ""
    /\ idx = 0
    /\ now = 0
    /\ cur \in DirectCalls
    /\ cap = "none"
    /\ out = "none"
    /\ t0 = 0
    /\ frame = 0
    /\ reads = 0
    /\ clip = <<>>
    /\ brk = FALSE
    /\ last = ""
    /\ log = <<>>
    /\ streams = <<>>
    /\ dispatched = <<>>
    /\ dirs = {}
    /\ files = {}

\* record_rtsp_stream, lines 112-117
RecordRtspStream ==
    /\ pc = "call"
    /\ LET target == DispatchTarget(cur.fmt)
       IN  IF target = "raise"
           THEN Raise("ValueError")
           ELSE pc' = target /\ exc' = exc
    /\ UNCHANGED <<config, devices, idx, now, attempt, history>>

\* the call and what it runs; pc = "main_loop" is the return to the caller
DirectNext ==
    \/ RecordRtspStream
    \/ SnapshotOpen
    \/ SnapshotPoll
    \/ SnapshotWaitOver
    \/ SnapshotWrite
    \/ VideoOpen
    \/ VideoStep
    \/ VideoTimeUp
    \/ VideoFinish
    \/ Tick

DirectSpec == DirectInit /\ [][DirectNext]_vars

(* ---------------------------- properties ------------------------------ *)
OutcomeMsgs == {"Success", "OpenFailed", "FrameTimeout", "WriteFailed"}

IsOutcome(line) == line.msg \in OutcomeMsgs

\* the per-device outcomes reported so far, in order
Outcomes == SelectSeq(log, IsOutcome)

\* the outcome reported for the running (or last) attempt, "" if none yet
CurOutcome ==
    IF Outcomes # <<>> /\ Outcomes[Len(Outcomes)].dev = cur.dev
    THEN Outcomes[Len(Outcomes)].msg
    ELSE ""

\* a capture attempt was made and control has left save_snapshot/save_video
AttemptEnded == cur.dev # 0 /\ pc \in {"main_loop", "done", "halt"}

\* the device numbers of a sequence of records with a dev field
RECURSIVE DevsOf(_)
DevsOf(seq) ==
    IF seq = <<>> THEN <<>> ELSE <<Head(seq).dev>> \o DevsOf(Tail(seq))

\* a record as the claims describe it: name or url missing or empty
LacksNameOrUrl(device) ==
    \E key \in {"camera_name", "camera_url"} :
        IF key \in DOMAIN device THEN device[key] = "" ELSE TRUE

\* positions 1..n of the list whose record has both name and url, in order
RECURSIVE ValidUpTo(_)
ValidUpTo(n) ==
    IF n = 0 THEN <<>>
    ELSE IF LacksNameOrUrl(devices[n]) THEN ValidUpTo(n - 1)
         ELSE Append(ValidUpTo(n - 1), n)

\* C1: batch failure isolation.  A device's failed capture is only
\* reported: the process is ended by nothing but a config error, and a run
\* that has finished has dispatched every device that has name and url and
\* reported one outcome per dispatched device, in input order.
C1_BatchIsolation ==
    /\ pc = "halt" => cur.dev = 0
    /\ pc \in {"done", "halt"} /\ config = "ok" =>
          /\ DevsOf(dispatched) = ValidUpTo(Len(devices))
          /\ DevsOf(Outcomes) = DevsOf(dispatched)

\* C2: whenever a capture attempt has ended, in whatever way control left
\* save_snapshot or save_video, the stream opened for it is not left open.
C2_HandleReleased == AttemptEnded => cap # "open"

\* C3: an image capture whose wait loop ran out with no frame ends with
\* outcome FrameTimeout: the write step is never entered without a frame
\* and no output file is created.
C3_FrameTimeout ==
    /\ pc = "snap_write" => frame # 0
    /\ AttemptEnded /\ cur.fmt = "jpg" /\ cap # "unopened" /\ frame = 0 =>
          CurOutcome = "FrameTimeout"

\* C4: a device (jpg or mp4) whose stream cannot be opened gets outcome
\* OpenFailed, and for it no frame is read, no video writer is opened and
\* no output file is created: the step that finds the stream unopened, and
\* every step taken while it is the last attempt, reports OpenFailed and
\* leaves the files as they were.
C4_OpenFailed ==
    [][cap' = "unopened" =>
          /\ CurOutcome' = "OpenFailed"
          /\ reads' = 0
          /\ clip' = <<>>
          /\ out' = "none"
          /\ files' = files]_vars

\* both kinds of device have failed to open in one run: an mp4 device was
\* reported OpenFailed and the batch went on to a jpg device that failed too
C4_Witness ==
    /\ cap = "unopened"
    /\ cur.fmt = "jpg"
    /\ Len(Outcomes) = 2
    /\ Outcomes[1].msg = "OpenFailed"
    /\ dispatched[1].fmt = "mp4"
    /\ files = {}

\* C5: in video recording a failed read, the very first included, ends the
\* loop at once, and the capture still ends in Success with the frames
\* written so far; once recording has started the video path reports
\* nothing but Success and never ends the process.
C5_VideoBestEffort ==
    cur.fmt = "mp4" =>
        /\ brk => pc # "vid_rec" /\ reads = Len(clip) + 1
        /\ cap = "released" => CurOutcome = "Success"
        /\ cap \in {"open", "released"} => CurOutcome \in {"", "Success"}
        /\ pc # "halt"

\* a recording was cut short by a failed read after one frame, and by a
\* failed first read
C5_Witness ==
    /\ cur.fmt = "mp4"
    /\ brk
    /\ cap = "released"
    /\ Len(clip) = 1
    /\ now - t0 < cur.duration

\* C6: when no read fails, the recording loop is left only once the time
\* elapsed since start_time is at least the requested duration, however
\* many frames were written.
C6_DurationBound ==
    pc = "vid_end" /\ ~brk => now - t0 >= cur.duration

\* the loop ran its full duration and wrote fewer frames than seconds
C6_Witness ==
    /\ pc = "vid_end"
    /\ ~brk
    /\ cur.duration = MaxDuration
    /\ Len(clip) = 1

\* control is inside save_snapshot or save_video
InAttempt ==
    pc \in {"snap_open", "snap_wait", "snap_write",
            "vid_open", "vid_rec", "vid_end"}

\* C7: when every statement completes and the clock keeps advancing, the
\* wait loop and the recording loop are both left, whatever the reads
\* return, so every capture attempt that has begun comes to its end.
\* (Both loops lie inside the attempt, so leaving the attempt includes
\* leaving the loop it was in.)
C7_LoopsTerminate == InAttempt ~> ~InAttempt

\* the wait loop was left by its deadline after reads that all failed, as
\* the second attempt of a run
C7_Witness ==
    /\ pc = "snap_write"
    /\ frame = 0
    /\ reads = MaxReads
    /\ now - t0 >= FrameWaitSec
    /\ cur.dev = 2

\* C8: a record whose camera_name or camera_url is missing or empty is
\* never dispatched and never has a stream opened; the step that handles it
\* makes no directory and writes no file, and moves the loop on to the next
\* record.
C8_SkipInvalid ==
    /\ [](\A i \in 1..Len(devices) :
             LacksNameOrUrl(devices[i]) =>
                 /\ \A k \in 1..Len(streams) : streams[k] # i
                 /\ \A k \in 1..Len(dispatched) : dispatched[k].dev # i)
    /\ [][pc = "main_loop" /\ idx <= Len(devices)
            /\ LacksNameOrUrl(devices[idx]) =>
                 /\ pc' = "main_loop"
                 /\ idx' = idx + 1
                 /\ dirs' = dirs
                 /\ files' = files
                 /\ streams' = streams
                 /\ dispatched' = dispatched]_vars

\* a record without url was passed over and the record after it captured
C8_Witness ==
    /\ Len(devices) = 2
    /\ "camera_url" \notin DOMAIN devices[1]
    /\ log = <<Line("Skip", 1), Line("Success", 2)>>
    /\ dirs = {}
    /\ pc = "done"

\* C9: with an empty device list the run opens no stream, creates no
\* output, reports that no devices were found and returns normally.
C9_EmptyList ==
    config = "ok" /\ devices = <<>> /\ pc # "start" =>
        /\ pc = "done"
        /\ exc = ""
        /\ log = <<Line("NoDevices", 0)>>
        /\ streams = <<>>
        /\ dispatched = <<>>
        /\ dirs = {}
        /\ files = {}

C9_Witness ==
    /\ config = "ok"
    /\ devices = <<>>
    /\ pc = "done"
    /\ log = <<Line("NoDevices", 0)>>

\* C10: a missing config file or malformed JSON ends the run with an
\* exception before any device is processed: no stream is opened and no
\* capture dispatched.
C10_ConfigFatal ==
    config # "ok" =>
        /\ pc \in {"start", "halt"}
        /\ pc = "halt" =>
              exc = (IF config = "missing" THEN "FileNotFoundError"
                     ELSE "ValueError")
        /\ idx = 0
        /\ log = <<>>
        /\ streams = <<>>
        /\ dispatched = <<>>
        /\ dirs = {}
        /\ files = {}

\* the run was aborted on malformed JSON
C10_Witness ==
    /\ config = "malformed"
    /\ pc = "halt"
    /\ exc = "ValueError"

\* C11: devices are captured one at a time in input order.  Streams are
\* opened in the order of the list, one per dispatched device; a stream
\* that is open belongs to the device being captured; and the next device
\* is dispatched only when the stream of the one before is no longer open.
C11_OneAtATime ==
    /\ [](/\ \A k \in 1..(Len(dispatched) - 1) :
                dispatched[k].dev < dispatched[k + 1].dev
          /\ Len(streams) <= Len(dispatched)
          /\ Len(dispatched) <= Len(streams) + 1
          /\ \A k \in 1..Len(streams) : streams[k] = dispatched[k].dev
          /\ cap = "open" =>
                /\ streams # <<>>
                /\ streams[Len(streams)] = cur.dev
                /\ InAttempt \/ pc = "halt")
    /\ [][dispatched' # dispatched => cap # "open"]_vars

\* the stream of a second device is open after a clip was recorded from
\* the first
C11_Witness ==
    /\ streams = <<1, 2>>
    /\ cap = "open"
    /\ dispatched[1].fmt = "mp4"
    /\ Outcomes = <<Line("Success", 1)>>

\* C12: no two devices dispatched in one run resolve to the same output
\* path, devices that share directory, filename and format and are
\* dispatched within the same second included.
C12_DistinctPaths ==
    \A i, j \in 1..Len(dispatched) :
        i # j => dispatched[i].path # dispatched[j].path

\* C13: the two read failures are told apart in both loops: after a read
\* that met "no frame yet" the loop goes on to another pass, and a read
\* that met the end of the stream is the last one of the loop.
C13_ReadSignals ==
    [][reads' = reads + 1 =>
          /\ last' = "noframe" => pc' = pc
          /\ last' = "ended" => pc' \notin {"snap_wait", "vid_rec"}]_vars

\* C13 as the code has it: the two read failures are not told apart.  In
\* the wait loop a failed read of either kind leaves the loop running for
\* another pass, and in the recording loop a failed read of either kind is
\* the last read: the loop is left by its break.
C13_FailedReads ==
    [][reads' = reads + 1 /\ last' \in {"noframe", "ended"} =>
          /\ pc = "snap_wait" => pc' = "snap_wait" /\ frame' = 0
          /\ pc = "vid_rec" => pc' = "vid_end" /\ brk' /\ clip' = clip]_vars

\* a recording was ended by a read that met no frame yet, after one frame
C13_Witness ==
    /\ pc = "vid_end"
    /\ brk
    /\ last = "noframe"
    /\ Len(clip) = 1
    /\ now - t0 < cur.duration

\* C14: in the image path the wait loop stops at the first decoded frame:
\* while the loop runs no frame has been decoded, the frame held after it
\* is the one of the last read made, and neither the frame nor the number
\* of reads changes for the rest of the attempt.
C14_FirstFrame ==
    /\ [](cur.fmt = "jpg" =>
             /\ pc = "snap_wait" => frame = 0 /\ last # "frame"
             /\ frame # 0 => frame = reads /\ last = "frame")
    /\ [][cur.fmt = "jpg" /\ frame # 0 /\ cur' = cur =>
             frame' = frame /\ reads' = reads]_vars

\* a snapshot was written from the second read, the first having failed
C14_Witness ==
    /\ cur.fmt = "jpg"
    /\ frame = 2
    /\ reads = 2
    /\ CurOutcome = "Success"
    /\ cur.path \in files

\* C15: in the image path the write of a decoded frame is made once: the
\* step from the write statement reports WriteFailed unless the file is
\* there (and then Success), reports nothing else, creates no file when it
\* fails, releases the stream and returns to the loop for the next device.
C15_WriteFailed ==
    [][pc = "snap_write" /\ frame # 0 =>
          /\ pc' = "main_loop"
          /\ idx' = idx + 1
          /\ cap' = "released"
          /\ Len(log') = Len(log) + 1
          /\ CurOutcome' \in {"Success", "WriteFailed"}
          /\ CurOutcome' = "Success" => cur.path \in files'
          /\ CurOutcome' = "WriteFailed" => files' = files]_vars

\* the write of the first device failed and the second device captured
C15_Witness ==
    /\ Len(Outcomes) = 2
    /\ Outcomes[1] = Line("WriteFailed", 1)
    /\ Outcomes[2] = Line("Success", 2)
    /\ streams = <<1, 2>>
    /\ cap = "released"
    /\ dispatched[1].path \notin files

\* C16: every call the batch loop makes passes jpg or mp4, jpg when the
\* record names any other format, so record_rtsp_stream never raises its
\* unsupported-format error in a batch run.
C16_FormatNormalised ==
    /\ \A k \in 1..Len(dispatched) :
          LET given == Get(devices[dispatched[k].dev], "fileformat", "mp4")
          IN  /\ dispatched[k].fmt \in {"jpg", "mp4"}
              /\ given \in {"jpg", "mp4"} => dispatched[k].fmt = given
              /\ given \notin {"jpg", "mp4"} => dispatched[k].fmt = "jpg"
              /\ dispatched[k].path.ext = dispatched[k].fmt
    /\ config = "ok" => exc # "ValueError"

\* a record asking for png was dispatched as a snapshot and written as jpg
C16_Witness ==
    /\ dispatched # <<>>
    /\ Get(devices[dispatched[1].dev], "fileformat", "mp4") = "png"
    /\ dispatched[1].fmt = "jpg"
    /\ dispatched[1].path \in files
    /\ Line("UnsupportedFormat", 1) = log[1]

\* C17: called with a format other than jpg or mp4, record_rtsp_stream
\* fails the call (it raises ValueError) without constructing a capture or
\* a writer and without creating a file.
C17_UnsupportedFormat ==
    cur.fmt \notin {"jpg", "mp4"} /\ pc # "call" =>
        /\ pc = "halt"
        /\ exc = "ValueError"
        /\ streams = <<>>
        /\ cap = "none"
        /\ out = "none"
        /\ reads = 0
        /\ files = {}

\* a call with format png was refused
C17_Witness ==
    /\ cur.fmt = "png"
    /\ dispatched = <<>>
    /\ pc = "halt"
    /\ exc = "ValueError"

\* C18: in video recording the frames given to the writer are exactly the
\* frames read successfully, each once and in read order, and a writer
\* that was constructed is released by the time the attempt has returned.
C18_ClipFrames ==
    cur.fmt = "mp4" =>
        /\ Len(clip) = reads - (IF brk THEN 1 ELSE 0)
        /\ \A k \in 1..Len(clip) : clip[k] = k
        /\ brk => last \in {"noframe", "ended"}
        /\ AttemptEnded /\ cap # "unopened" => out = "released"
        /\ cap = "unopened" => out = "none"

\* two frames were read and written, and the writer released
C18_Witness ==
    /\ cur.fmt = "mp4"
    /\ clip = <<1, 2>>
    /\ reads = 2
    /\ ~brk
    /\ out = "released"
    /\ cur.path \in files

====
